---- MODULE Spec2Model ----
(***************************************************************************)
(* Read path of the event-listing backend: the two HTTP read endpoints     *)
(* (app/routers/event_router.py), the assembly layer                       *)
(* (app/services/event_service.py), the data-access layer                  *)
(* (app/repositories/event_repository.py) and the request-scoped database  *)
(* session (app/core/database.py, app/dependencies.py).                    *)
(*                                                                         *)
(* Python's Optional[T] is modelled as a sequence of length <= 1:          *)
(* None is <<>> and a present value x is <<x>>.                            *)
(***************************************************************************)
EXTENDS Integers, Sequences, FiniteSets, TLC

VARIABLES
    store,      \* the rows of table "events" with their related rows; store[i].id = i
    req,        \* the HTTP requests of the run: request id -> its progress
    created,    \* number of Session objects constructed so far
    open,       \* the sessions constructed and not yet closed
    call,       \* helper harness: the EventService helper invocation under test
    ret         \* helper harness: what that invocation returned

vars == <<store, req, created, open, call, ret>>

None == <<>>
Some(x) == <<x>>

Range(s) == {s[i] : i \in 1..Len(s)}
Min(a, b) == IF a <= b THEN a ELSE b
Max(a, b) == IF a >= b THEN a ELSE b

(***************************************************************************)
(* Program constants.                                                      *)
(***************************************************************************)
DRAFT == 0
PUBLISHED == 1
ARCHIVED == 2
LocaleMaxLength == 10
PageMin == 1
SizeMin == 1
SizeMax == 100
DefaultLocale == "zh-TW"

(***************************************************************************)
(* Bounds of the model.                                                    *)
(***************************************************************************)
MaxEvents == 3          \* rows in table "events"
MaxPage == 2            \* largest page number a request asks for
MaxTranslations == 2    \* translations of one event in the helper harness
MaxAttachments == 2     \* attachments of one event in the helper harness

StoredLocales == {"zh-TW", "en-US", "fr-FR"}
LongLocale == "zh-Hant-TW-x"
RequestLocales == StoredLocales \cup {LongLocale}
Times == {1, 2}
Clients == {"c1", "c2"}

(***************************************************************************)
(* EventService._get_translation: exact locale, else "zh-TW", else the     *)
(* first translation, else None.                                           *)
(***************************************************************************)
FirstWithLocale(translations, locale, default) ==
    LET hits == SelectSeq(translations, LAMBDA t : t.locale = locale)
    IN  IF Len(hits) > 0 THEN Some(Head(hits)) ELSE default

GetTranslationNoDefaultLocale(event, locale) ==
    LET translation == FirstWithLocale(event.translations, locale, None)
    IN  IF translation = None /\ Len(event.translations) > 0
        THEN Some(event.translations[1])
        ELSE translation

GetTranslation(event, locale) ==
    LET translation == FirstWithLocale(event.translations, locale, None)
    IN  IF translation = None /\ Len(event.translations) > 0
        THEN FirstWithLocale(event.translations, DefaultLocale,
                             Some(event.translations[1]))
        ELSE translation

(***************************************************************************)
(* EventService._get_json_text: dict.get and Python's truthiness "or".     *)
(***************************************************************************)
DictGet(d, k) == IF k \in DOMAIN d THEN Some(d[k]) ELSE None

Truthy(v) == v # None /\ v[1] # ""

PyOr(a, b) == IF Truthy(a) THEN a ELSE b

GetJsonTextByKeyPresence(data_dict, locale, default) ==
    IF data_dict = None \/ DOMAIN data_dict[1] = {}
    THEN default
    ELSE IF locale \in DOMAIN data_dict[1] THEN data_dict[1][locale]
         ELSE IF DefaultLocale \in DOMAIN data_dict[1] THEN data_dict[1][DefaultLocale]
         ELSE default

GetJsonText(data_dict, locale, default) ==
    IF data_dict = None \/ DOMAIN data_dict[1] = {}
    THEN default
    ELSE PyOr(PyOr(DictGet(data_dict[1], locale),
                   DictGet(data_dict[1], DefaultLocale)),
              Some(default))[1]

(***************************************************************************)
(* EventService._transform_to_list_view.                                   *)
(***************************************************************************)
TransformToListViewRawTitle(event, locale) ==
    LET trans == GetTranslation(event, locale)
        title == IF trans # None THEN trans[1].title ELSE ""
        cat_name == GetJsonText(Some(event.category.names), locale, "No Category")
    IN  [id |-> event.id,
         slug |-> event.category.slug \o "-" \o ToString(event.id),
         title |-> title,
         category |-> [slug |-> event.category.slug, name |-> cat_name],
         published_at |-> event.published_at,
         organizer_info |-> event.organizer_info]

TransformToListView(event, locale) ==
    LET trans == GetTranslation(event, locale)
        title == IF trans # None THEN trans[1].title ELSE "No Translation"
        cat_name == GetJsonText(Some(event.category.names), locale, "No Category")
    IN  [id |-> event.id,
         slug |-> event.category.slug \o "-" \o ToString(event.id),
         title |-> title,
         category |-> [slug |-> event.category.slug, name |-> cat_name],
         published_at |-> event.published_at,
         organizer_info |-> event.organizer_info]

(***************************************************************************)
(* AttachmentPublic declares title: str, so constructing it from an        *)
(* attachment whose title is None raises pydantic's ValidationError.       *)
(* EventService._transform_to_detail_view returns [ok |-> TRUE, view] or   *)
(* [ok |-> FALSE, error] for the exception leaving the method.             *)
(***************************************************************************)
AttachmentPublicValid(att) == att.title # None

AttachmentPublic(att) == [type |-> att.type, title |-> att.title[1], path |-> att.path]

TransformToDetailView(event, locale) ==
    LET base_view == TransformToListView(event, locale)
        trans == GetTranslation(event, locale)
    IN  IF \E i \in 1..Len(event.attachments) : ~AttachmentPublicValid(event.attachments[i])
        THEN [ok |-> FALSE, error |-> "ValidationError"]
        ELSE [ok |-> TRUE,
              view |-> [id |-> base_view.id,
                        slug |-> base_view.slug,
                        title |-> base_view.title,
                        category |-> base_view.category,
                        published_at |-> base_view.published_at,
                        organizer_info |-> base_view.organizer_info,
                        content |-> IF trans # None THEN trans[1].content ELSE None,
                        location |-> IF trans # None THEN trans[1].location ELSE None,
                        attachments |-> [i \in 1..Len(event.attachments) |->
                                            AttachmentPublic(event.attachments[i])]]]

(***************************************************************************)
(* Rows the tables can hold.  A translation row is unique per (event,      *)
(* locale); content and location are nullable.  An attachment row has a    *)
(* nullable title and an integer sort_order.                               *)
(***************************************************************************)
TranslationRows ==
    UNION {{[locale |-> l, title |-> "T-" \o l,
             content |-> Some("Body-" \o l), location |-> Some("Hall")],
            [locale |-> l, title |-> "T-" \o l,
             content |-> None, location |-> None]} : l \in StoredLocales}

TranslationSeqs ==
    UNION {{s \in [1..n -> TranslationRows] :
               \A i, j \in 1..n : i # j => s[i].locale # s[j].locale}
           : n \in 0..MaxTranslations}

AttachmentRow(i, sort_order, title) ==
    [id |-> i, type |-> IF i = 1 THEN "image" ELSE "file",
     path |-> "/uploads/" \o ToString(i), title |-> title, sort_order |-> sort_order]

AttachmentSeqs ==
    UNION {{[i \in 1..n |-> AttachmentRow(i, k[i][1], k[i][2])] :
               k \in [1..n -> {1, 2} \X {None, Some("Poster")}]}
           : n \in 0..MaxAttachments}

NameMaps == UNION {[D -> {"", "Hi", "Hai"}] : D \in SUBSET {"zh-TW", "en-US"}}

OrganizerInfos == {None, Some([name |-> "OSA"])}

EventRow(id, status, deleted_at, published_at, names, translations, attachments, organizer_info) ==
    [id |-> id, status |-> status, deleted_at |-> deleted_at,
     published_at |-> published_at,
     category |-> [slug |-> "speech", names |-> names],
     translations |-> translations, attachments |-> attachments,
     organizer_info |-> organizer_info]

(***************************************************************************)
(* Event.attachments is a relationship with order_by sort_order: loading   *)
(* an event yields its attachments in ascending sort_order, rows of equal  *)
(* sort_order in an order the database chooses.                            *)
(***************************************************************************)
IndexOrders(n) == {p \in [1..n -> 1..n] : \A i, j \in 1..n : i # j => p[i] # p[j]}

AttachmentOrders(rows) ==
    {[i \in 1..Len(rows) |-> rows[p[i]]] : p \in
        {q \in IndexOrders(Len(rows)) :
            \A i, j \in 1..Len(rows) :
                i < j => rows[q[i]].sort_order <= rows[q[j]].sort_order}}

Load(event) == {[event EXCEPT !.attachments = a] : a \in AttachmentOrders(event.attachments)}

(***************************************************************************)
(* Helper harness: the private helpers of EventService called directly on  *)
(* one input.                                                              *)
(***************************************************************************)
HarnessEvent(names, translations, attachments, organizer_info, published_at) ==
    EventRow(7, PUBLISHED, None, published_at, names, translations, attachments,
             organizer_info)

DefaultNames == ("zh-TW" :> "Hai") @@ ("en-US" :> "Hi")

GetTranslationCalls ==
    {[fn |-> "_get_translation",
      event |-> HarnessEvent(DefaultNames, t, <<>>, None, Some(1)), locale |-> l] :
        t \in TranslationSeqs, l \in RequestLocales}

GetJsonTextCalls ==
    {[fn |-> "_get_json_text", data_dict |-> d, locale |-> l, default |-> df] :
        d \in {None} \cup {Some(m) : m \in NameMaps}, l \in StoredLocales,
        df \in {"Unknown", "No Category"}}

TransformToListViewCalls ==
    {[fn |-> "_transform_to_list_view",
      event |-> HarnessEvent(n, t, <<>>, o, p), locale |-> l] :
        n \in NameMaps, t \in TranslationSeqs, o \in OrganizerInfos,
        p \in {None, Some(1)}, l \in StoredLocales}

TransformToDetailViewCalls ==
    {[fn |-> "_transform_to_detail_view",
      event |-> HarnessEvent(DefaultNames, t, a, None, Some(1)), locale |-> l] :
        t \in TranslationSeqs, a \in AttachmentSeqs, l \in StoredLocales}

NoCall == [fn |-> "none"]
Pending == [done |-> FALSE]
Returned(v) == [done |-> TRUE, value |-> v]

InitHelpers ==
    /\ store = <<>>
    /\ req = <<>>
    /\ created = 0
    /\ open = {}
    /\ call \in GetTranslationCalls \cup GetJsonTextCalls
                \cup TransformToListViewCalls \cup TransformToDetailViewCalls
    /\ ret = Pending

CallGetTranslation ==
    /\ call.fn = "_get_translation" /\ ~ret.done
    /\ ret' = Returned(GetTranslation(call.event, call.locale))
    /\ UNCHANGED <<store, req, created, open, call>>

CallGetJsonText ==
    /\ call.fn = "_get_json_text" /\ ~ret.done
    /\ ret' = Returned(GetJsonText(call.data_dict, call.locale, call.default))
    /\ UNCHANGED <<store, req, created, open, call>>

CallTransformToListView ==
    /\ call.fn = "_transform_to_list_view" /\ ~ret.done
    /\ ret' = Returned(TransformToListView(call.event, call.locale))
    /\ UNCHANGED <<store, req, created, open, call>>

CallTransformToDetailView ==
    /\ call.fn = "_transform_to_detail_view" /\ ~ret.done
    /\ \E event \in Load(call.event) :
          ret' = Returned(TransformToDetailView(event, call.locale))
    /\ UNCHANGED <<store, req, created, open, call>>

NextHelpers ==
    \/ CallGetTranslation
    \/ CallGetJsonText
    \/ CallTransformToListView
    \/ CallTransformToDetailView

SpecHelpers == InitHelpers /\ [][NextHelpers]_vars

(***************************************************************************)
(* Properties of the helpers, checked under SpecHelpers.                   *)
(***************************************************************************)
HasLocale(translations, locale) ==
    \E i \in 1..Len(translations) : translations[i].locale = locale

LocalesOf(translations) == [i \in 1..Len(translations) |-> translations[i].locale]

\* C2: _get_translation returns the translation of the requested locale if the
\* event has one, otherwise its "zh-TW" translation if it has one, otherwise its
\* first translation in stored order, and None exactly when the event has no
\* translations; what it returns is one of the event's own translations, and for
\* translations ["en-US", "fr-FR"] and locale "zh-TW" it is the "en-US" one.
C2_TranslationFallback ==
    (call.fn = "_get_translation" /\ ret.done) =>
        LET ts == call.event.translations
            l == call.locale
            r == ret.value
        IN  /\ (r = None) <=> (Len(ts) = 0)
            /\ r # None => r[1] \in Range(ts)
            /\ HasLocale(ts, l) => (r # None /\ r[1].locale = l)
            /\ (~HasLocale(ts, l) /\ HasLocale(ts, "zh-TW")) =>
                   (r # None /\ r[1].locale = "zh-TW")
            /\ (~HasLocale(ts, l) /\ ~HasLocale(ts, "zh-TW") /\ Len(ts) > 0) =>
                   r = Some(ts[1])
            /\ (LocalesOf(ts) = <<"en-US", "fr-FR">> /\ l = "zh-TW") =>
                   (r # None /\ r[1].locale = "en-US")

C2_DoubleFallbackReached ==
    /\ call.fn = "_get_translation" /\ ret.done
    /\ LocalesOf(call.event.translations) = <<"en-US", "fr-FR">>
    /\ call.locale = "zh-TW"
    /\ ret.value = Some(call.event.translations[1])

PresentNonEmpty(data_dict, key) ==
    /\ data_dict # None
    /\ key \in DOMAIN data_dict[1]
    /\ data_dict[1][key] # ""

\* C3: _get_json_text returns map[locale] when that key is present with a
\* non-empty value, otherwise map["zh-TW"] when that is present and non-empty,
\* otherwise the default (also for an empty or absent map); an empty string
\* counts as missing at both steps; ({"en-US": "Hi"}, "fr-FR", "Unknown") gives
\* "Unknown" and ({"zh-TW": "Hai"}, "fr-FR", "Unknown") gives "Hai".
C3_JsonTextFallback ==
    (call.fn = "_get_json_text" /\ ret.done) =>
        LET d == call.data_dict
            l == call.locale
        IN  /\ PresentNonEmpty(d, l) => ret.value = d[1][l]
            /\ (~PresentNonEmpty(d, l) /\ PresentNonEmpty(d, "zh-TW")) =>
                   ret.value = d[1]["zh-TW"]
            /\ (~PresentNonEmpty(d, l) /\ ~PresentNonEmpty(d, "zh-TW")) =>
                   ret.value = call.default
            /\ (d = Some("en-US" :> "Hi") /\ l = "fr-FR" /\ call.default = "Unknown") =>
                   ret.value = "Unknown"
            /\ (d = Some("zh-TW" :> "Hai") /\ l = "fr-FR" /\ call.default = "Unknown") =>
                   ret.value = "Hai"

C3_EmptyStringSkipped ==
    /\ call.fn = "_get_json_text" /\ ret.done
    /\ call.data_dict = Some(("en-US" :> "") @@ ("zh-TW" :> "Hai"))
    /\ call.locale = "en-US"
    /\ ret.value = "Hai"

\* C7: _transform_to_list_view yields id = event.id, slug =
\* "{category.slug}-{event.id}", title = the title of the translation
\* _get_translation resolves or "No Translation" when none resolves, category =
\* (category.slug, localized category name with default "No Category"),
\* published_at = event.published_at and organizer_info = the event's
\* organizer-info map unchanged.
C7_ListViewFields ==
    (call.fn = "_transform_to_list_view" /\ ret.done) =>
        LET e == call.event
            l == call.locale
            v == ret.value
            resolved == GetTranslation(e, l)
        IN  /\ DOMAIN v = {"id", "slug", "title", "category", "published_at",
                           "organizer_info"}
            /\ v.id = e.id
            /\ v.slug = e.category.slug \o "-" \o ToString(e.id)
            /\ (Len(e.translations) = 0) => v.title = "No Translation"
            /\ resolved # None => v.title = resolved[1].title
            /\ resolved = None => v.title = "No Translation"
            /\ v.category = [slug |-> e.category.slug,
                             name |-> GetJsonText(Some(e.category.names), l, "No Category")]
            /\ v.published_at = e.published_at
            /\ v.organizer_info = e.organizer_info

C7_NoTranslationTitle ==
    /\ call.fn = "_transform_to_list_view" /\ ret.done
    /\ Len(call.event.translations) = 0
    /\ call.event.organizer_info # None
    /\ ret.value.title = "No Translation"
    /\ ret.value.category.name = "No Category"

\* C8: _transform_to_detail_view yields a detail view whose list-view fields
\* equal those of _transform_to_list_view for the same event and locale, whose
\* content and location are those of the resolved translation (both absent when
\* none resolves) and whose attachments are exactly one (type, title, path)
\* entry per attachment of the event, in ascending sort_order.
C8_DetailViewFields ==
    (call.fn = "_transform_to_detail_view" /\ ret.done) =>
        /\ ret.value.ok
        /\ LET e == call.event
               l == call.locale
               v == ret.value.view
               base == TransformToListView(e, l)
               resolved == GetTranslation(e, l)
               n == Len(e.attachments)
           IN  /\ \A f \in DOMAIN base : v[f] = base[f]
               /\ v.content = (IF resolved = None THEN None ELSE resolved[1].content)
               /\ v.location = (IF resolved = None THEN None ELSE resolved[1].location)
               /\ Len(v.attachments) = n
               /\ \E p \in IndexOrders(n) :
                     /\ \A i \in 1..n :
                           v.attachments[i] = [type |-> e.attachments[p[i]].type,
                                               title |-> e.attachments[p[i]].title[1],
                                               path |-> e.attachments[p[i]].path]
                     /\ \A i, j \in 1..n :
                           i < j => e.attachments[p[i]].sort_order
                                       <= e.attachments[p[j]].sort_order

(***************************************************************************)
(* EventRepository.  Both queries keep the rows with deleted_at IS NULL    *)
(* and status = PUBLISHED.  get_list orders by published_at DESC without a *)
(* NULLS clause; the engine is configured for MySQL, which sorts NULL      *)
(* below every value, so NULL rows come last.  Rows of equal published_at  *)
(* come in an order the database chooses.                                  *)
(***************************************************************************)
VisibleStatusOnly(event) == event.status = PUBLISHED

Visible(event) == event.deleted_at = None /\ event.status = PUBLISHED

DescMayPrecede(a, b) == b = None \/ (a # None /\ a[1] >= b[1])

Sequences0(S) ==
    {s \in [1..Cardinality(S) -> S] :
        \A i, j \in 1..Cardinality(S) : i # j => s[i] # s[j]}

LoadAll(ids) ==
    {rows \in [1..Len(ids) -> UNION {Load(store[ids[i]]) : i \in 1..Len(ids)}] :
        \A i \in 1..Len(ids) : rows[i] \in Load(store[ids[i]])}

OffsetLimit(rows, skip, limit) == SubSeq(rows, skip + 1, Min(skip + limit, Len(rows)))

GetList(skip, limit) ==
    LET qualifying == {i \in 1..Len(store) : Visible(store[i])}
        ordered == {o \in Sequences0(qualifying) :
                       \A i, j \in 1..Len(o) :
                           i < j => DescMayPrecede(store[o[i]].published_at,
                                                   store[o[j]].published_at)}
    IN  UNION {LoadAll(OffsetLimit(o, skip, limit)) : o \in ordered}

GetById(event_id) ==
    IF event_id \in 1..Len(store) /\ Visible(store[event_id])
    THEN {Some(e) : e \in Load(store[event_id])}
    ELSE {None}

(***************************************************************************)
(* EventService.get_events and EventService.get_event_detail: the set of   *)
(* results the call can have, each with the repository call it made.       *)
(***************************************************************************)
SkipFromPageOnly(page, page_size) == page - 1

Skip(page, page_size) == (page - 1) * page_size

GetEvents(locale, page, page_size) ==
    LET skip == Skip(page, page_size)
    IN  {[repo |-> [fn |-> "get_list", skip |-> skip, limit |-> page_size],
          outcome |-> "ok",
          body |-> [i \in 1..Len(raw_events) |-> TransformToListView(raw_events[i], locale)]]
         : raw_events \in GetList(skip, page_size)}

NotFound == [status_code |-> 404, detail |-> "Event not found"]

GetEventDetail(event_id, locale) ==
    {LET view == IF event = None THEN [ok |-> FALSE]
                 ELSE TransformToDetailView(event[1], locale)
     IN  [repo |-> [fn |-> "get_by_id", event_id |-> event_id],
          outcome |-> IF event = None THEN "not_found"
                      ELSE IF view.ok THEN "ok" ELSE "unhandled_failure",
          body |-> IF event = None THEN NotFound
                   ELSE IF view.ok THEN view.view ELSE [error |-> view.error]]
     : event \in GetById(event_id)}

(***************************************************************************)
(* The transport layer.  A request is "new" until its dependencies are     *)
(* resolved (get_event_service -> get_session opens a Session), "open"     *)
(* while the session is open and the endpoint has not run, "done" when the *)
(* endpoint has produced its outcome, "closed" once the dependency's with  *)
(* block has closed the session.                                           *)
(***************************************************************************)
ListQueryValid(locale, page, size) ==
    /\ Len(locale) <= LocaleMaxLength
    /\ page >= PageMin
    /\ size >= SizeMin
    /\ size <= SizeMax

DetailQueryValid(event_id, locale) == TRUE

Pages == 0..MaxPage
Sizes == {0, 1, 2, SizeMax, SizeMax + 1}
EventIds == 0..(MaxEvents + 1)

GetSession(r) ==
    /\ req[r].pc = "new"
    /\ created' = created + 1
    /\ open' = open \cup {created + 1}
    /\ req' = [req EXCEPT ![r] = [pc |-> "open", session |-> created + 1]]
    /\ UNCHANGED <<store, call, ret>>

Rejected(r, endpoint, params) ==
    [pc |-> "done", session |-> req[r].session, endpoint |-> endpoint,
     params |-> params, service |-> None, repo |-> None,
     outcome |-> "validation_error", body |-> [error |-> "RequestValidationError"]]

Served(r, endpoint, params, service, out) ==
    [pc |-> "done", session |-> req[r].session, endpoint |-> endpoint,
     params |-> params, service |-> Some(service), repo |-> Some(out.repo),
     outcome |-> out.outcome, body |-> out.body]

(***************************************************************************)
(* The tables after a request has read the rows `ids`: both repository     *)
(* methods execute a SELECT, the service only builds DTOs from the loaded  *)
(* objects, and nothing is added, flushed or committed on the session.     *)
(***************************************************************************)
TablesAfterSelectDefaultingOrganizer(ids) ==
    [i \in 1..Len(store) |->
        IF i \in ids /\ store[i].organizer_info = None
        THEN [store[i] EXCEPT !.organizer_info = Some([name |-> ""])]
        ELSE store[i]]

TablesAfterSelect(ids) == store

ReadEvents(r, locale, page, size) ==
    /\ req[r].pc = "open"
    /\ LET params == [locale |-> locale, page |-> page, size |-> size]
       IN  IF ~ListQueryValid(locale, page, size)
           THEN req' = [req EXCEPT ![r] = Rejected(r, "read_events", params)]
                /\ store' = store
           ELSE \E out \in GetEvents(locale, page, size) :
                   /\ req' = [req EXCEPT ![r] =
                                 Served(r, "read_events", params,
                                        [fn |-> "get_events", locale |-> locale,
                                         page |-> page, page_size |-> size], out)]
                   /\ store' = TablesAfterSelect({out.body[i].id : i \in 1..Len(out.body)})
    /\ UNCHANGED <<created, open, call, ret>>

ReadEventDetail(r, event_id, locale) ==
    /\ req[r].pc = "open"
    /\ LET params == [event_id |-> event_id, locale |-> locale]
       IN  IF ~DetailQueryValid(event_id, locale)
           THEN req' = [req EXCEPT ![r] = Rejected(r, "read_event_detail", params)]
                /\ store' = store
           ELSE \E out \in GetEventDetail(event_id, locale) :
                   /\ req' = [req EXCEPT ![r] =
                                 Served(r, "read_event_detail", params,
                                        [fn |-> "get_event_detail", event_id |-> event_id,
                                         locale |-> locale], out)]
                   /\ store' = TablesAfterSelect(IF out.outcome = "not_found"
                                                 THEN {} ELSE {event_id})
    /\ UNCHANGED <<created, open, call, ret>>

OpenAfterExitUnlessRaised(session, outcome) ==
    IF outcome = "unhandled_failure" THEN open ELSE open \ {session}

OpenAfterExit(session, outcome) == open \ {session}

CloseSession(r) ==
    /\ req[r].pc = "done"
    /\ open' = OpenAfterExit(req[r].session, req[r].outcome)
    /\ req' = [req EXCEPT ![r] = [pc |-> "closed", session |-> req[r].session,
                                  outcome |-> req[r].outcome]]
    /\ UNCHANGED <<store, created, call, ret>>

Endpoint(r) ==
    \/ \E locale \in RequestLocales, page \in Pages, size \in Sizes :
          ReadEvents(r, locale, page, size)
    \/ \E event_id \in EventIds, locale \in RequestLocales :
          ReadEventDetail(r, event_id, locale)

Next ==
    \/ \E r \in DOMAIN req : GetSession(r)
    \/ \E r \in DOMAIN req, locale \in RequestLocales, page \in Pages, size \in Sizes :
          ReadEvents(r, locale, page, size)
    \/ \E r \in DOMAIN req, event_id \in EventIds, locale \in RequestLocales :
          ReadEventDetail(r, event_id, locale)
    \/ \E r \in DOMAIN req : CloseSession(r)

(***************************************************************************)
(* Store contents.  Spec: one request against every store of up to         *)
(* MaxEvents rows.  SpecSessions: the requests of Clients interleaved      *)
(* against one store, with the fairness the framework gives a request      *)
(* (the endpoint runs once its dependencies are resolved, and the          *)
(* generator dependency is exited once the endpoint has ended).            *)
(***************************************************************************)
PlainTranslations ==
    <<[locale |-> "zh-TW", title |-> "T-zh-TW", content |-> Some("Body-zh-TW"),
       location |-> Some("Hall")]>>

PlainRow(id, status, deleted_at, published_at) ==
    EventRow(id, status, deleted_at, published_at, DefaultNames, PlainTranslations,
             <<AttachmentRow(1, 1, Some("Poster"))>>, None)

UntitledAttachmentRow(id) ==
    EventRow(id, PUBLISHED, None, Some(1), DefaultNames, PlainTranslations,
             <<AttachmentRow(1, 1, None)>>, None)

EventChoices(id) ==
    {PlainRow(id, PUBLISHED, None, p) : p \in {None} \cup {Some(t) : t \in Times}}
    \cup {PlainRow(id, DRAFT, None, Some(2)),
          PlainRow(id, ARCHIVED, None, Some(2)),
          PlainRow(id, PUBLISHED, Some(1), Some(2)),
          UntitledAttachmentRow(id)}

Stores ==
    UNION {{s \in [1..n -> UNION {EventChoices(i) : i \in 1..n}] :
               \A i \in 1..n : s[i] \in EventChoices(i)}
           : n \in 0..MaxEvents}

NewRequests(ids) == [r \in ids |-> [pc |-> "new"]]

Init ==
    /\ store \in Stores
    /\ req = NewRequests({"c1"})
    /\ created = 0
    /\ open = {}
    /\ call = NoCall
    /\ ret = Pending

Spec == Init /\ [][Next]_vars

InitSessions ==
    /\ store = <<PlainRow(1, PUBLISHED, None, Some(2)), UntitledAttachmentRow(2)>>
    /\ req = NewRequests(Clients)
    /\ created = 0
    /\ open = {}
    /\ call = NoCall
    /\ ret = Pending

SpecSessions ==
    /\ InitSessions
    /\ [][Next]_vars
    /\ \A r \in Clients : WF_vars(Endpoint(r)) /\ WF_vars(CloseSession(r))

(***************************************************************************)
(* SpecRepeat: the requests of Clients interleaved against every store of  *)
(* two rows, among them rows of equal published_at and a row whose         *)
(* attachments have equal sort_order.                                      *)
(***************************************************************************)
TiedAttachmentsRow(id) ==
    EventRow(id, PUBLISHED, None, Some(1), DefaultNames, PlainTranslations,
             <<AttachmentRow(1, 1, Some("Poster")), AttachmentRow(2, 1, Some("Map"))>>,
             None)

RepeatChoices(id) ==
    {PlainRow(id, PUBLISHED, None, Some(1)),
     PlainRow(id, PUBLISHED, None, Some(2)),
     PlainRow(id, PUBLISHED, Some(1), Some(2)),
     TiedAttachmentsRow(id)}

InitRepeat ==
    /\ store \in {<<a, b>> : a \in RepeatChoices(1), b \in RepeatChoices(2)}
    /\ req = NewRequests(Clients)
    /\ created = 0
    /\ open = {}
    /\ call = NoCall
    /\ ret = Pending

SpecRepeat ==
    /\ InitRepeat
    /\ [][Next]_vars
    /\ \A r \in Clients : WF_vars(Endpoint(r)) /\ WF_vars(CloseSession(r))

(***************************************************************************)
(* Properties of the endpoints, checked under Spec.                        *)
(***************************************************************************)
Done(r) == req[r].pc = "done"

ListServed(r) ==
    Done(r) /\ req[r].endpoint = "read_events" /\ req[r].service # None

DetailServed(r) ==
    Done(r) /\ req[r].endpoint = "read_event_detail" /\ req[r].service # None

Hidden(event) == event.deleted_at # None \/ event.status # PUBLISHED

\* C1: no event whose deleted_at is non-null or whose status is not PUBLISHED
\* appears in a list result or is returned by the detail operation.
C1_HiddenNeverReturned ==
    \A r \in DOMAIN req :
        /\ (ListServed(r) /\ req[r].outcome = "ok") =>
               \A i \in 1..Len(req[r].body) :
                   /\ req[r].body[i].id \in 1..Len(store)
                   /\ ~Hidden(store[req[r].body[i].id])
        /\ (DetailServed(r) /\ req[r].outcome = "ok") =>
               /\ req[r].body.id = req[r].params.event_id
               /\ req[r].body.id \in 1..Len(store)
               /\ ~Hidden(store[req[r].body.id])
        /\ (DetailServed(r) /\ req[r].params.event_id \in 1..Len(store)
                /\ Hidden(store[req[r].params.event_id])) =>
               req[r].outcome = "not_found"

C1_HiddenRowSkipped ==
    \E r \in DOMAIN req :
        /\ ListServed(r) /\ req[r].outcome = "ok"
        /\ req[r].params.page = 1 /\ req[r].params.size = SizeMax
        /\ \E i, j, k \in 1..Len(store) :
              /\ store[i].deleted_at # None
              /\ store[j].status = DRAFT
              /\ ~Hidden(store[k])
        /\ Len(req[r].body) = 1

\* C4: the detail operation ends in exactly one of two outcomes: not-found
\* (HTTP 404, detail "Event not found") when no event with that id exists or
\* the event is soft-deleted or not PUBLISHED, otherwise the complete detail
\* view of that event; no visible event makes it end in any other failure.
C4_DetailNotFoundOrView ==
    \A r \in DOMAIN req :
        (Done(r) /\ req[r].endpoint = "read_event_detail") =>
            LET id == req[r].params.event_id
                l == req[r].params.locale
            IN  IF id \in 1..Len(store) /\ ~Hidden(store[id])
                THEN /\ req[r].outcome = "ok"
                     /\ \E e \in Load(store[id]) :
                           /\ TransformToDetailView(e, l).ok
                           /\ req[r].body = TransformToDetailView(e, l).view
                ELSE /\ req[r].outcome = "not_found"
                     /\ req[r].body = [status_code |-> 404, detail |-> "Event not found"]

PublishedKey(event) == IF event.published_at = None THEN 0 ELSE event.published_at[1]

\* C5: for page >= 1 and size in 1..100, get_events calls the data-access layer
\* with skip = (page-1)*size and limit = size and returns the list views of
\* exactly the qualifying events at positions (page-1)*size+1 .. page*size of
\* the published_at-descending sequence, in that order: at most size items, and
\* an empty sequence, not an error, when the page lies beyond the last row.
C5_Pagination ==
    \A r \in DOMAIN req :
        ListServed(r) =>
            LET page == req[r].params.page
                size == req[r].params.size
                skip == (page - 1) * size
                body == req[r].body
                qualifying == {i \in 1..Len(store) : ~Hidden(store[i])}
                total == Cardinality(qualifying)
            IN  /\ page >= 1 /\ size \in 1..100
                /\ req[r].repo = Some([fn |-> "get_list", skip |-> skip, limit |-> size])
                /\ req[r].outcome = "ok"
                /\ Len(body) = Max(0, Min(size, total - skip))
                /\ \A i \in 1..Len(body) :
                      /\ body[i].id \in qualifying
                      /\ body[i] = TransformToListView(store[body[i].id], req[r].params.locale)
                      /\ Cardinality({q \in qualifying :
                             PublishedKey(store[q]) > PublishedKey(store[body[i].id])})
                            <= skip + i - 1
                      /\ Cardinality({q \in qualifying :
                             PublishedKey(store[q]) >= PublishedKey(store[body[i].id])})
                            >= skip + i
                /\ \A i, j \in 1..Len(body) : i # j => body[i].id # body[j].id

C5_SecondPageReached ==
    \E r \in DOMAIN req :
        /\ ListServed(r)
        /\ req[r].params.page = 2 /\ req[r].params.size = 2
        /\ Len(req[r].body) = 1
        /\ \A i \in 1..Len(store) :
              PublishedKey(store[i]) >= PublishedKey(store[req[r].body[1].id])

PublishedGeq(a, b) == a # None /\ b # None /\ a[1] >= b[1]

\* C6: the list result is ordered by published_at descending: of any two
\* adjacent results the earlier has published_at >= the later, also when some
\* qualifying events have a null published_at.
C6_AdjacentPublishedDescending ==
    \A r \in DOMAIN req :
        (ListServed(r) /\ req[r].outcome = "ok") =>
            \A i \in 1..(Len(req[r].body) - 1) :
                PublishedGeq(req[r].body[i].published_at, req[r].body[i + 1].published_at)

\* C9: on both read endpoints a request with malformed parameters (locale
\* longer than 10 characters, page < 1, size < 1 or size > 100) is rejected
\* with a validation error before EventService is invoked; a request that
\* reaches EventService has len(locale) <= 10 and, on the list endpoint,
\* page >= 1 and 1 <= size <= 100.
C9_MalformedRejected ==
    \A r \in DOMAIN req :
        Done(r) =>
            LET malformed ==
                    \/ Len(req[r].params.locale) > 10
                    \/ /\ req[r].endpoint = "read_events"
                       /\ \/ req[r].params.page < 1
                          \/ req[r].params.size < 1
                          \/ req[r].params.size > 100
            IN  /\ malformed =>
                       (req[r].outcome = "validation_error" /\ req[r].service = None)
                /\ req[r].service # None =>
                       /\ Len(req[r].service[1].locale) <= 10
                       /\ req[r].endpoint = "read_events" =>
                              /\ req[r].service[1].page >= 1
                              /\ req[r].service[1].page_size \in 1..100
                              /\ req[r].repo[1].skip >= 0

(***************************************************************************)
(* Properties of the request-scoped session, checked under SpecSessions.   *)
(***************************************************************************)
InFlight(r) == req[r].pc \in {"open", "done"}

SessionScoped ==
    /\ \A r \in Clients : InFlight(r) => req[r].session \in open
    /\ \A r \in Clients : req[r].pc = "closed" => req[r].session \notin open
    /\ \A r1, r2 \in Clients :
          (r1 # r2 /\ req[r1].pc # "new" /\ req[r2].pc # "new") =>
              req[r1].session # req[r2].session
    /\ open = {req[r].session : r \in {c \in Clients : InFlight(c)}}
    /\ created = Cardinality({r \in Clients : req[r].pc # "new"})

\* C10: every read request acquires exactly one database session when it
\* starts, and that session is eventually closed after the request completes,
\* whether it ends with a response, with the 404 error or with an unhandled
\* failure; with requests interleaved, no session is shared between two
\* requests and no session stays open after its request has finished.
C10_SessionPerRequest ==
    /\ []SessionScoped
    /\ \A r \in Clients :
          InFlight(r) ~> (req[r].pc = "closed" /\ req[r].session \notin open)

C10_ClosedAfterFailureWhileOtherOpen ==
    /\ req["c1"].pc = "closed" /\ req["c1"].outcome = "unhandled_failure"
    /\ req["c2"].pc = "done" /\ req["c2"].outcome = "not_found"
    /\ open = {req["c2"].session}
    /\ created = 2

(***************************************************************************)
(* Properties of repeated requests, checked under SpecRepeat.              *)
(***************************************************************************)
SameRequest(r1, r2) ==
    /\ req[r1].pc = "done" /\ req[r2].pc = "done"
    /\ req[r1].endpoint = req[r2].endpoint
    /\ req[r1].params = req[r2].params

SameOutcome(r1, r2) ==
    /\ req[r1].outcome = req[r2].outcome
    /\ req[r1].body = req[r2].body

\* The rows a request's result is ordered from have pairwise distinct sort
\* keys: the qualifying events' published_at for a list request, the
\* attachments' sort_order of the requested event for a detail request.
Untied(r) ==
    IF req[r].endpoint = "read_events"
    THEN \A i, j \in 1..Len(store) :
            (i # j /\ ~Hidden(store[i]) /\ ~Hidden(store[j])) =>
                store[i].published_at # store[j].published_at
    ELSE LET id == req[r].params.event_id
         IN  id \in 1..Len(store) =>
                 \A i, j \in 1..Len(store[id].attachments) :
                     i # j => store[id].attachments[i].sort_order
                                 # store[id].attachments[j].sort_order

====
